---------------------------- MODULE Spec2Model ----------------------------
(***************************************************************************)
(* A model of the annotation session of gui_annotator.py (image-unit       *)
(* grouper, annotation store reader, annotation index, validator/writer,   *)
(* navigator) and of the batch scorer of                                   *)
(* camerabench/vqa_and_retrieval_vlm_scores.py.                            *)
(*                                                                         *)
(* Text (file names, questions, choices) is a sequence of one-character    *)
(* strings, so that trimming, suffix/stem splitting and the natural-order  *)
(* key are computed character by character as the code computes them.      *)
(***************************************************************************)
EXTENDS Integers, Sequences, FiniteSets, TLC

VARIABLES
    phase,        \* "boot" | "running" | "exited" | "crashed" (gui_annotator main/App)
    imgdir,       \* the images directory: [exists, entries (in enumeration order)]
    annroot,      \* whether the annotation root exists
    disk,         \* the annotation store: skill -> [kind, files (in glob order)]
    image_sets,   \* App.image_sets
    idx,          \* App.idx
    all_ann,      \* App.all_ann
    set_index,    \* App.set_index: canonical key -> sequence of records
    asked,        \* the records shown in App.asked_text by the last refresh
    q_text,       \* App.q_text contents
    choice_vars,  \* App.choice_vars contents, one text per choice field
    gt_var,       \* App.gt_var
    skill_var,    \* App.skill_var
    dialog,       \* the message box shown (or exception raised) by the last handler
    attempts,     \* number of submits that reached the disk append
    saved,        \* history: <<unit, record>> of every submit whose write raised nothing
    samples,      \* scorer: the input samples
    present,      \* scorer: the image files that exist under video_base_path
    si,           \* scorer: loop position (number of samples consumed)
    results,      \* scorer: the results list
    spc,          \* scorer: "run" | "returned" | "raised"
    fin,          \* pure-function specifications: the input drawn by Init
    fout          \* pure-function specifications: the value computed from fin

vars == <<phase, imgdir, annroot, disk, image_sets, idx, all_ann, set_index, asked,
          q_text, choice_vars, gt_var, skill_var, dialog, attempts, saved,
          samples, present, si, results, spc, fin, fout>>

sessionVars == <<phase, imgdir, annroot, disk, image_sets, idx, all_ann, set_index,
                 asked, q_text, choice_vars, gt_var, skill_var, dialog, attempts,
                 saved>>

scorerVars == <<samples, present, si, results, spc>>

pureVars == <<fin, fout>>

-----------------------------------------------------------------------------
(* Characters and text                                                      *)

\* The characters of the model's texts, in code-point order.
Alphabet ==
    <<"\n", " ", ".", "/",
      "0", "1", "2", "3", "4", "5", "6", "7", "8", "9",
      "A", "B", "C", "D", "E", "F", "G", "H", "I", "J", "K", "L", "M",
      "N", "O", "P", "Q", "R", "S", "T", "U", "V", "W", "X", "Y", "Z",
      "_",
      "a", "b", "c", "d", "e", "f", "g", "h", "i", "j", "k", "l", "m",
      "n", "o", "p", "q", "r", "s", "t", "u", "v", "w", "x", "y", "z",
      "²">>

Ord(c) == CHOOSE i \in 1..Len(Alphabet) : Alphabet[i] = c

\* the characters the pattern \d matches
Digits == {"0", "1", "2", "3", "4", "5", "6", "7", "8", "9"}

\* characters for which str.isdigit() holds and that \d does not match and
\* int() does not accept (superscript digits)
SuperDigits == {"²"}

Whitespace == {" ", "\n"}

IsDigit(c) == c \in Digits

DigitVal(c) == Ord(c) - Ord("0")

\* str.lower() on one character
LowerChar(c) ==
    IF Ord(c) >= Ord("A") /\ Ord(c) <= Ord("Z")
    THEN Alphabet[Ord(c) - Ord("A") + Ord("a")]
    ELSE c

Lower(s) == [i \in 1..Len(s) |-> LowerChar(s[i])]

\* str.strip(): leading and trailing whitespace removed
RECURSIVE LStrip(_)
LStrip(s) ==
    IF s # <<>> /\ Head(s) \in Whitespace THEN LStrip(Tail(s)) ELSE s

RECURSIVE RStrip(_)
RStrip(s) ==
    IF s # <<>> /\ s[Len(s)] \in Whitespace
    THEN RStrip(SubSeq(s, 1, Len(s) - 1))
    ELSE s

Strip(s) == RStrip(LStrip(s))

\* Python's < on str: lexicographic by code point, a proper prefix first
RECURSIVE StrLess(_, _)
StrLess(a, b) ==
    IF b = <<>> THEN FALSE
    ELSE IF a = <<>> THEN TRUE
    ELSE IF Head(a) # Head(b) THEN Ord(Head(a)) < Ord(Head(b))
    ELSE StrLess(Tail(a), Tail(b))

\* sorted() on a list of str (stable insertion by <)
RECURSIVE InsertStr(_, _)
InsertStr(sorted, x) ==
    IF sorted = <<>> THEN <<x>>
    ELSE IF StrLess(x, Head(sorted)) THEN <<x>> \o sorted
    ELSE <<Head(sorted)>> \o InsertStr(Tail(sorted), x)

RECURSIVE SortedStrs(_)
SortedStrs(names) ==
    IF names = <<>> THEN <<>>
    ELSE InsertStr(SortedStrs(SubSeq(names, 1, Len(names) - 1)), names[Len(names)])

\* index of the last / first occurrence of character c in s, 0 when absent
RECURSIVE LastIndexOf(_, _)
LastIndexOf(s, c) ==
    IF s = <<>> THEN 0
    ELSE IF s[Len(s)] = c THEN Len(s)
    ELSE LastIndexOf(SubSeq(s, 1, Len(s) - 1), c)

RECURSIVE FirstIndexFrom(_, _, _)
FirstIndexFrom(s, c, i) ==
    IF i > Len(s) THEN 0
    ELSE IF s[i] = c THEN i
    ELSE FirstIndexFrom(s, c, i + 1)

FirstIndexOf(s, c) == FirstIndexFrom(s, c, 1)

\* str.split(c)
RECURSIVE SplitOn(_, _)
SplitOn(s, c) ==
    LET i == FirstIndexOf(s, c)
    IN  IF i = 0 THEN <<s>>
        ELSE <<SubSeq(s, 1, i - 1)>> \o SplitOn(SubSeq(s, i + 1, Len(s)), c)

\* a component pathlib keeps: not empty ("a//b", "a/") and not "."
IsNamePart(part) == part # <<>> /\ part # <<".">>

\* pathlib: PurePath(p).name, the last component of the path, "" when none
Basename(p) ==
    LET parts == SelectSeq(SplitOn(p, "/"), IsNamePart)
    IN  IF parts = <<>> THEN <<>> ELSE parts[Len(parts)]

\* pathlib: PurePath.suffix and PurePath.stem of a file name
HasSuffix(name) ==
    LET i == LastIndexOf(name, ".") IN i > 1 /\ i < Len(name)

Suffix(name) ==
    IF HasSuffix(name) THEN SubSeq(name, LastIndexOf(name, "."), Len(name)) ELSE <<>>

Stem(name) ==
    IF HasSuffix(name) THEN SubSeq(name, 1, LastIndexOf(name, ".") - 1) ELSE name

-----------------------------------------------------------------------------
(* Image-unit grouper                                                       *)

SKILL_OPTIONS ==
    <<"occlusion_visibility", "distance_awareness", "navigation",
      "relative_agents", "egocentric_motion">>

SkillSet == {SKILL_OPTIONS[i] : i \in 1..Len(SKILL_OPTIONS)}

IMG_EXTS ==
    {<<".", "j", "p", "g">>, <<".", "j", "p", "e", "g">>, <<".", "p", "n", "g">>}

\* the longest prefix of s made of digits (d = TRUE) or of non-digits (d = FALSE)
RECURSIVE TakeRun(_, _)
TakeRun(s, d) ==
    IF s # <<>> /\ (IsDigit(Head(s)) = d)
    THEN <<Head(s)>> \o TakeRun(Tail(s), d)
    ELSE <<>>

\* re.split(r"(\d+)", s): non-digit run, digit run, non-digit run, ...
RECURSIVE SplitDigitRuns(_)
SplitDigitRuns(s) ==
    LET nd   == TakeRun(s, FALSE)
        rest == SubSeq(s, Len(nd) + 1, Len(s))
    IN  IF rest = <<>> THEN <<nd>>
        ELSE LET dg    == TakeRun(rest, TRUE)
                 rest2 == SubSeq(rest, Len(dg) + 1, Len(rest))
             IN  <<nd, dg>> \o SplitDigitRuns(rest2)

\* str.isdigit()
IsAllDigits(t) == t # <<>> /\ \A i \in 1..Len(t) : t[i] \in Digits \cup SuperDigits

\* int(t) raises ValueError: t.isdigit() holds and t is no decimal literal
IntRaises(t) == IsAllDigits(t) /\ \E i \in 1..Len(t) : t[i] \in SuperDigits

\* int(t) of a digit run
RECURSIVE IntOf(_)
IntOf(t) ==
    IF t = <<>> THEN 0
    ELSE IntOf(SubSeq(t, 1, Len(t) - 1)) * 10 + DigitVal(t[Len(t)])

\* one element of the key: an int (num) or a lower-cased str
KeyElem(t) ==
    IF IsAllDigits(t)
    THEN [num |-> TRUE, n |-> IntOf(t), s |-> <<>>]
    ELSE [num |-> FALSE, n |-> 0, s |-> Lower(t)]

natural_key(s) ==
    LET toks == SplitDigitRuns(s) IN [i \in 1..Len(toks) |-> KeyElem(toks[i])]

\* natural_key(s) raises instead of returning a key
KeyRaises(s) ==
    LET toks == SplitDigitRuns(s) IN \E i \in 1..Len(toks) : IntRaises(toks[i])

\* Python's < on two key elements; the elements at one position of two keys
\* are both int or both str, since the runs alternate from a non-digit run
ElemLess(a, b) ==
    IF a.num /\ b.num THEN a.n < b.n ELSE StrLess(a.s, b.s)

\* Python's < on two lists
RECURSIVE KeyLess(_, _)
KeyLess(a, b) ==
    IF b = <<>> THEN FALSE
    ELSE IF a = <<>> THEN TRUE
    ELSE IF Head(a) # Head(b) THEN ElemLess(Head(a), Head(b))
    ELSE KeyLess(Tail(a), Tail(b))

\* sorted(xs, key=natural_key) and list.sort(key=natural_key): stable
RECURSIVE InsertNatural(_, _)
InsertNatural(sorted, x) ==
    IF sorted = <<>> THEN <<x>>
    ELSE IF KeyLess(natural_key(x), natural_key(Head(sorted))) THEN <<x>> \o sorted
    ELSE <<Head(sorted)>> \o InsertNatural(Tail(sorted), x)

RECURSIVE SortNatural(_)
SortNatural(xs) ==
    IF xs = <<>> THEN <<>>
    ELSE InsertNatural(SortNatural(SubSeq(xs, 1, Len(xs) - 1)), xs[Len(xs)])

\* the filter of the scan loop: a regular file, an image suffix, "_" in the stem
Qualifies(e) ==
    /\ e.isfile
    /\ Lower(Suffix(e.name)) \in IMG_EXTS
    /\ FirstIndexOf(Stem(e.name), "_") # 0

\* stem.split("_", 1)[0]
PrefixOf(name) ==
    LET st == Stem(name) IN SubSeq(st, 1, FirstIndexOf(st, "_") - 1)

\* mutant: a new group is created holding the name and the name is appended again
AddToGroupTwice(groups, prefix, name) ==
    IF \E i \in 1..Len(groups) : groups[i].prefix = prefix
    THEN [i \in 1..Len(groups) |->
            IF groups[i].prefix = prefix
            THEN [groups[i] EXCEPT !.files = Append(@, name)]
            ELSE groups[i]]
    ELSE Append(groups, [prefix |-> prefix, files |-> <<name, name>>])

\* groups[prefix].append(name) on the insertion-ordered dict groups
AddToGroup(groups, prefix, name) ==
    IF \E i \in 1..Len(groups) : groups[i].prefix = prefix
    THEN [i \in 1..Len(groups) |->
            IF groups[i].prefix = prefix
            THEN [groups[i] EXCEPT !.files = Append(@, name)]
            ELSE groups[i]]
    ELSE Append(groups, [prefix |-> prefix, files |-> <<name>>])

\* the scan loop over img_dir.iterdir(), entries in enumeration order
RECURSIVE GroupFiles(_)
GroupFiles(entries) ==
    IF entries = <<>> THEN <<>>
    ELSE LET before == GroupFiles(SubSeq(entries, 1, Len(entries) - 1))
             e      == entries[Len(entries)]
         IN  IF Qualifies(e)
             THEN AddToGroup(before, PrefixOf(e.name), e.name)
             ELSE before

GroupOf(groups, prefix) ==
    (CHOOSE i \in 1..Len(groups) : groups[i].prefix = prefix)

\* the call raises: a key function of one of the two sorts raises
GrouperRaises(entries) ==
    LET groups == GroupFiles(entries)
    IN  \E i \in 1..Len(groups) :
           \/ KeyRaises(groups[i].prefix)
           \/ \E j \in 1..Len(groups[i].files) : KeyRaises(groups[i].files[j])

\* the list returned when the call does not raise
list_image_sets(entries) ==
    LET groups   == GroupFiles(entries)
        prefixes == SortNatural([i \in 1..Len(groups) |-> groups[i].prefix])
    IN  [i \in 1..Len(prefixes) |->
            SortNatural(groups[GroupOf(groups, prefixes[i])].files)]

-----------------------------------------------------------------------------
(* Annotation store, store reader, annotation index                         *)

(* A parsed JSON value.  type is "object" for a dict and "other" for any    *)
(* other JSON value (a list, a number, ...).  images.k tells what           *)
(* d.get("images") is: "absent" (None), "string" (a value that is not a     *)
(* list), "list" (a list of str, images.v) or "mixed" (a non-empty list     *)
(* holding an element that is not a str).  qk tells what                    *)
(* d.get("question", "") is: "str" (a str, question; "" when the key is     *)
(* absent) or "other" (a JSON value that is no str: null, a number, ...).   *)
JsonObject(skill, imgs, choices, gt, question) ==
    [type |-> "object", skill |-> skill, images |-> imgs, choices |-> choices,
     ground_truth |-> gt, question |-> question, qk |-> "str"]

ImagesList(names) == [k |-> "list", v |-> names]

NoVal ==
    [type |-> "none", skill |-> "", images |-> [k |-> "absent", v |-> <<>>],
     choices |-> <<>>, ground_truth |-> -1, question |-> <<>>, qk |-> "str"]

(* One line of a .jsonl file.  kind is "json" (json.loads accepts the       *)
(* stripped line and returns val), "bad" (json.loads raises), "blank"       *)
(* (empty after strip) or "undecodable" (bytes that are not UTF-8).  holds  *)
(* lists the values whose complete JSON text the line contains, in order:   *)
(* one for a JSON line, several when texts were written one after another   *)
(* without a newline between them.                                          *)
JsonLine(v) == [kind |-> "json", val |-> v, holds |-> <<v>>]

BadLine == [kind |-> "bad", val |-> NoVal, holds |-> <<>>]

BlankLine == [kind |-> "blank", val |-> NoVal, holds |-> <<>>]

UndecodableLine == [kind |-> "undecodable", val |-> NoVal, holds |-> <<>>]

(* A file <name>.jsonl: its lines, and nl = whether its text ends with a    *)
(* newline (TRUE for an empty file).                                        *)
JsonlFile(name, lines, nl) == [name |-> name, lines |-> lines, nl |-> nl]

\* a category path under ann_root: missing, a directory (files in the order
\* folder.glob("*.jsonl") yields them), or a regular file
NoDir == [kind |-> "missing", files |-> <<>>]

CatDir(files) == [kind |-> "dir", files |-> files]

NotADir == [kind |-> "file", files |-> <<>>]

\* the backing file the reader picks among jsonls: <skill>.jsonl, else jsonls[0]
PickJsonl(skill, jsonls) ==
    IF \E i \in 1..Len(jsonls) : jsonls[i].name = skill
    THEN jsonls[CHOOSE i \in 1..Len(jsonls) : jsonls[i].name = skill]
    ELSE jsonls[1]

\* the inner loop over the lines of one file: the values appended to ann
RECURSIVE ParsedLines(_)
ParsedLines(lines) ==
    IF lines = <<>> THEN <<>>
    ELSE LET l == Head(lines)
         IN  IF l.kind = "json"
             THEN <<l.val>> \o ParsedLines(Tail(lines))
             ELSE ParsedLines(Tail(lines))

\* decoding the file as UTF-8 raises UnicodeDecodeError, which neither try catches
DecodeRaises(file) ==
    \E i \in 1..Len(file.lines) : file.lines[i].kind = "undecodable"

\* the body of the loop over SKILL_OPTIONS for one skill
ReadCategory(store, skill) ==
    LET cat == store[skill]
    IN  IF cat.kind # "dir" \/ cat.files = <<>>
        THEN [raised |-> FALSE, ann |-> <<>>]
        ELSE LET f == PickJsonl(skill, cat.files)
             IN  IF DecodeRaises(f)
                 THEN [raised |-> TRUE, ann |-> <<>>]
                 ELSE [raised |-> FALSE, ann |-> ParsedLines(f.lines)]

RECURSIVE ReadSkills(_, _)
ReadSkills(store, skills) ==
    IF skills = <<>> THEN [raised |-> FALSE, ann |-> <<>>]
    ELSE LET first == ReadCategory(store, Head(skills))
             rest  == ReadSkills(store, Tail(skills))
         IN  [raised |-> first.raised \/ rest.raised,
              ann    |-> first.ann \o rest.ann]

\* raised: the call ends with an exception instead of returning ann
load_all_annotations(store) == ReadSkills(store, SKILL_OPTIONS)

\* mutant: the record is put in front of the records of its key
IndexAppendFront(index, key, d) ==
    IF key \in DOMAIN index
    THEN [index EXCEPT ![key] = <<d>> \o @]
    ELSE index @@ (key :> <<d>>)

\* mutant: the record replaces the records of its key
IndexAppendReplace(index, key, d) ==
    IF key \in DOMAIN index
    THEN [index EXCEPT ![key] = <<d>>]
    ELSE index @@ (key :> <<d>>)

\* mutant: a record equal to one already listed under its key is not appended
IndexAppendOnce(index, key, d) ==
    IF key \in DOMAIN index
    THEN IF \E i \in 1..Len(index[key]) : index[key][i] = d
         THEN index
         ELSE [index EXCEPT ![key] = Append(@, d)]
    ELSE index @@ (key :> <<d>>)

\* idx[key].append(d) / set_index.setdefault(key, []).append(d)
IndexAppend(index, key, d) ==
    IF key \in DOMAIN index
    THEN [index EXCEPT ![key] = Append(@, d)]
    ELSE index @@ (key :> <<d>>)

\* mutant: the key is the tuple of the names in the order given
CanonicalKeyUnsorted(names) == names

\* tuple(sorted(names))
CanonicalKey(names) == SortedStrs(names)

\* d.get raises AttributeError on a value that is no dict; Path(p) raises
\* TypeError on an element that is no str
IndexRaises(d) ==
    \/ d.type # "object"
    \/ d.images.k = "mixed"

\* "if not imgs or not isinstance(imgs, list): continue"
IndexSkips(d) == d.images.k # "list" \/ d.images.v = <<>>

RecordKey(d) ==
    CanonicalKey([i \in 1..Len(d.images.v) |-> Basename(d.images.v[i])])

RECURSIVE BuildIndex(_)
BuildIndex(ann_list) ==
    IF ann_list = <<>> THEN [raised |-> FALSE, idx |-> <<>>]
    ELSE LET before == BuildIndex(SubSeq(ann_list, 1, Len(ann_list) - 1))
             d      == ann_list[Len(ann_list)]
         IN  IF before.raised \/ IndexRaises(d) THEN [raised |-> TRUE, idx |-> <<>>]
             ELSE IF IndexSkips(d) THEN before
             ELSE [raised |-> FALSE, idx |-> IndexAppend(before.idx, RecordKey(d), d)]

build_set_index(ann_list) == BuildIndex(ann_list)

\* self.set_index.get(tuple(sorted(names)), [])
Lookup(index, names) ==
    LET key == CanonicalKey(names)
    IN  IF key \in DOMAIN index THEN index[key] ELSE <<>>

-----------------------------------------------------------------------------
(* The annotation session: main, App.__init__, navigation, form, submit     *)

\* bounds of the model
MaxSubmits == 2

MaxChoiceFields == 5

\* program constants
InitialChoiceFields == 4

MinChoices == 4

EmptyForm == [i \in 1..InitialChoiceFields |-> <<>>]

\* d.get("question", "").strip() raises AttributeError on a question that is
\* no str
QuestionRaises(d) == d.qk # "str"

\* _refresh_already_asked raises while it lists the items of the unit at
\* position i (0-based)
AskedRaises(index, sets, i) ==
    LET items == Lookup(index, sets[i + 1])
    IN  \E k \in 1..Len(items) : QuestionRaises(items[k])

\* _refresh_already_asked: the items listed for the unit at position i
\* (0-based); the panel is cleared first and the items are inserted one by
\* one, so when an item raises the panel holds the items before it
AskedFor(index, sets, i) ==
    LET items == Lookup(index, sets[i + 1])
    IN  IF AskedRaises(index, sets, i)
        THEN SubSeq(items, 1,
                    (CHOOSE k \in 1..Len(items) :
                        /\ QuestionRaises(items[k])
                        /\ \A j \in 1..(k - 1) : ~QuestionRaises(items[j])) - 1)
        ELSE items

(* main() followed by App.__init__ on an images directory dir, an annotation *)
(* root (root = whether it exists) and a store: the attributes the session   *)
(* holds when the constructor has ended.  phase is "exited" when the session *)
(* was refused, "crashed" when the grouper, the reader, the index build or   *)
(* the first _load_set raised, and "running" when the window is up.  The     *)
(* first _load_set runs after _build_ui, which has created the four choice   *)
(* fields and selected the first skill.                                      *)
NotStarted(ph, msg) ==
    [phase |-> ph, dialog |-> msg, image_sets |-> <<>>, idx |-> 0,
     all_ann |-> <<>>, set_index |-> <<>>, asked |-> <<>>,
     q_text |-> <<>>, choice_vars |-> <<>>, gt_var |-> -1, skill_var |-> ""]

\* mutant: the store is read and indexed before the image sets are looked at
AppInitLoadFirst(dir, store) ==
    LET sets   == list_image_sets(dir.entries)
        loaded == load_all_annotations(store)
        built  == build_set_index(loaded.ann)
    IN  IF GrouperRaises(dir.entries) THEN NotStarted("crashed", "uncaught")
        ELSE IF loaded.raised
        THEN [NotStarted("crashed", "uncaught") EXCEPT !.image_sets = sets]
        ELSE IF built.raised
        THEN [NotStarted("crashed", "uncaught") EXCEPT
                 !.image_sets = sets, !.all_ann = loaded.ann]
        ELSE IF sets = <<>> THEN NotStarted("exited", "No image sets")
        ELSE IF AskedRaises(built.idx, sets, 0)
        THEN [NotStarted("crashed", "uncaught") EXCEPT
                 !.image_sets = sets, !.all_ann = loaded.ann, !.set_index = built.idx,
                 !.asked = AskedFor(built.idx, sets, 0),
                 !.choice_vars = EmptyForm, !.skill_var = SKILL_OPTIONS[1]]
        ELSE [phase |-> "running", dialog |-> "none", image_sets |-> sets, idx |-> 0,
              all_ann |-> loaded.ann, set_index |-> built.idx,
              asked |-> AskedFor(built.idx, sets, 0),
              q_text |-> <<>>, choice_vars |-> EmptyForm, gt_var |-> -1,
              skill_var |-> SKILL_OPTIONS[1]]

AppInit(dir, store) ==
    LET sets   == list_image_sets(dir.entries)
        loaded == load_all_annotations(store)
        built  == build_set_index(loaded.ann)
    IN  IF GrouperRaises(dir.entries) THEN NotStarted("crashed", "uncaught")
        ELSE IF sets = <<>> THEN NotStarted("exited", "No image sets")
        ELSE IF loaded.raised
        THEN [NotStarted("crashed", "uncaught") EXCEPT !.image_sets = sets]
        ELSE IF built.raised
        THEN [NotStarted("crashed", "uncaught") EXCEPT
                 !.image_sets = sets, !.all_ann = loaded.ann]
        ELSE IF AskedRaises(built.idx, sets, 0)
        THEN [NotStarted("crashed", "uncaught") EXCEPT
                 !.image_sets = sets, !.all_ann = loaded.ann, !.set_index = built.idx,
                 !.asked = AskedFor(built.idx, sets, 0),
                 !.choice_vars = EmptyForm, !.skill_var = SKILL_OPTIONS[1]]
        ELSE [phase |-> "running", dialog |-> "none", image_sets |-> sets, idx |-> 0,
              all_ann |-> loaded.ann, set_index |-> built.idx,
              asked |-> AskedFor(built.idx, sets, 0),
              q_text |-> <<>>, choice_vars |-> EmptyForm, gt_var |-> -1,
              skill_var |-> SKILL_OPTIONS[1]]

SessionStart(dir, root, store) ==
    IF ~dir.exists THEN NotStarted("exited", "Images dir not found")
    ELSE IF ~root THEN NotStarted("exited", "Annotation root not found")
    ELSE AppInit(dir, store)

\* main(): the process starts on the file system drawn by Init
Start ==
    /\ phase = "boot"
    /\ LET s == SessionStart(imgdir, annroot, disk)
       IN  /\ phase' = s.phase
           /\ dialog' = s.dialog
           /\ image_sets' = s.image_sets
           /\ idx' = s.idx
           /\ all_ann' = s.all_ann
           /\ set_index' = s.set_index
           /\ asked' = s.asked
           /\ q_text' = s.q_text
           /\ choice_vars' = s.choice_vars
           /\ gt_var' = s.gt_var
           /\ skill_var' = s.skill_var
    /\ UNCHANGED <<imgdir, annroot, disk, attempts, saved>>
    /\ UNCHANGED <<scorerVars, pureVars>>

\* mutant: the choice rows are re-created and gt_var is not reset
LoadSetKeepGroundTruth(i) ==
    /\ idx' = i
    /\ asked' = AskedFor(set_index, image_sets, i)
    /\ IF AskedRaises(set_index, image_sets, i)
       THEN /\ dialog' = "uncaught"
            /\ UNCHANGED <<q_text, choice_vars>>
       ELSE /\ q_text' = <<>>
            /\ choice_vars' = EmptyForm
            /\ dialog' = "none"
    /\ UNCHANGED <<phase, imgdir, annroot, disk, image_sets, all_ann, set_index,
                   gt_var, skill_var, attempts, saved>>
    /\ UNCHANGED <<scorerVars, pureVars>>

(* _load_set after idx was set to i: refresh "already asked", then reset the *)
(* form.  When the refresh raises, the exception leaves the handler before   *)
(* the reset: the form stays as it was and the window stays up.              *)
LoadSet(i) ==
    /\ idx' = i
    /\ asked' = AskedFor(set_index, image_sets, i)
    /\ IF AskedRaises(set_index, image_sets, i)
       THEN /\ dialog' = "uncaught"
            /\ UNCHANGED <<q_text, choice_vars, gt_var>>
       ELSE /\ q_text' = <<>>
            /\ choice_vars' = EmptyForm
            /\ gt_var' = -1
            /\ dialog' = "none"
    /\ UNCHANGED <<phase, imgdir, annroot, disk, image_sets, all_ann, set_index,
                   skill_var, attempts, saved>>
    /\ UNCHANGED <<scorerVars, pureVars>>

\* mutant: no wrap-around at the first unit
PrevIdxClamped(i, n) == IF i = 0 THEN 0 ELSE i - 1

\* (self.idx - 1) % len(self.image_sets)
PrevIdx(i, n) == (i - 1) % n

\* (self.idx + 1) % len(self.image_sets)
NextIdx(i, n) == (i + 1) % n

prev_set ==
    /\ phase = "running"
    /\ LoadSet(PrevIdx(idx, Len(image_sets)))

next_set ==
    /\ phase = "running"
    /\ LoadSet(NextIdx(idx, Len(image_sets)))

add_choice_field ==
    /\ phase = "running"
    /\ Len(choice_vars) < MaxChoiceFields
    /\ choice_vars' = Append(choice_vars, <<>>)
    /\ dialog' = "none"
    /\ UNCHANGED <<phase, imgdir, annroot, disk, image_sets, idx, all_ann, set_index,
                   asked, q_text, gt_var, skill_var, attempts, saved>>
    /\ UNCHANGED <<scorerVars, pureVars>>

(* The user fills the form: types the question and every existing choice    *)
(* field, picks a ground-truth radio button (or leaves none picked when     *)
(* none is) and a skill radio button.                                       *)
FillForm(f) ==
    /\ phase = "running"
    /\ Len(f.choices) = Len(choice_vars)
    /\ f.gt \in 0..(Len(choice_vars) - 1) \/ (f.gt = -1 /\ gt_var = -1)
    /\ f.skill \in SkillSet
    /\ q_text' = f.q
    /\ choice_vars' = f.choices
    /\ gt_var' = f.gt
    /\ skill_var' = f.skill
    /\ dialog' = "none"
    /\ UNCHANGED <<phase, imgdir, annroot, disk, image_sets, idx, all_ann, set_index,
                   asked, attempts, saved>>
    /\ UNCHANGED <<scorerVars, pureVars>>

\* mutant: the ground-truth check admits gt = len(choices)
ValidateLooseGroundTruth(skill, question, choices, gt) ==
    IF skill \notin SkillSet THEN "Missing skill"
    ELSE IF question = <<>> THEN "Missing question"
    ELSE IF \E i \in 1..Len(choices) : choices[i] = <<>> THEN "Choices: no empty choices"
    ELSE IF Len(choices) < MinChoices THEN "Choices: at least 4"
    ELSE IF ~(0 <= gt /\ gt <= Len(choices)) THEN "Ground truth"
    ELSE "ok"

\* mutant: the number of choices is checked before their contents
ValidateCountFirst(skill, question, choices, gt) ==
    IF skill \notin SkillSet THEN "Missing skill"
    ELSE IF question = <<>> THEN "Missing question"
    ELSE IF Len(choices) < MinChoices THEN "Choices: at least 4"
    ELSE IF \E i \in 1..Len(choices) : choices[i] = <<>> THEN "Choices: no empty choices"
    ELSE IF ~(0 <= gt /\ gt < Len(choices)) THEN "Ground truth"
    ELSE "ok"

\* the checks of submit in their order: the dialog shown, or "ok"
Validate(skill, question, choices, gt) ==
    IF skill \notin SkillSet THEN "Missing skill"
    ELSE IF question = <<>> THEN "Missing question"
    ELSE IF \E i \in 1..Len(choices) : choices[i] = <<>> THEN "Choices: no empty choices"
    ELSE IF Len(choices) < MinChoices THEN "Choices: at least 4"
    ELSE IF ~(0 <= gt /\ gt < Len(choices)) THEN "Ground truth"
    ELSE "ok"

\* what submit reads from the widgets; q_text.get("1.0", tk.END) ends with a newline
FormSkill == skill_var

FormQuestion == Strip(q_text \o <<"\n">>)

\* mutant: the choices are read without strip()
FormChoicesRaw == choice_vars

FormChoices == [i \in 1..Len(choice_vars) |-> Strip(choice_vars[i])]

FormVerdict == Validate(FormSkill, FormQuestion, FormChoices, gt_var)

\* the record dict built by submit
FormRecord ==
    JsonObject(FormSkill, ImagesList(image_sets[idx + 1]), FormChoices, gt_var,
               FormQuestion)

HasMain(cat, skill) == \E i \in 1..Len(cat.files) : cat.files[i].name = skill

\* folder.mkdir(parents=True, exist_ok=True) when it succeeds
MakeDir(store, skill) ==
    IF store[skill].kind = "missing" THEN [store EXCEPT ![skill] = CatDir(<<>>)]
    ELSE store

(* The text of one file after text is appended to it: line is the appended  *)
(* text as the reader will see it, complete = it ends with its newline.     *)
(* Text appended to a file that does not end with a newline continues its   *)
(* last line: the line is undecodable when either part is, and otherwise    *)
(* no JSON text.  The unterminated last lines of the stores explored are    *)
(* blank, a JSON text, undecodable, or what a cut write of the session left *)
(* (a proper prefix of an object's text).                                   *)
Glue(last, line) ==
    IF last.kind = "blank" THEN line
    ELSE [kind  |-> IF "undecodable" \in {last.kind, line.kind}
                    THEN "undecodable" ELSE "bad",
          val   |-> NoVal,
          holds |-> last.holds \o line.holds]

WriteText(file, line, complete) ==
    IF file.nl
    THEN [file EXCEPT !.lines = Append(@, line), !.nl = complete]
    ELSE [file EXCEPT !.lines[Len(file.lines)] = Glue(@, line), !.nl = complete]

\* open(out_path, "a"): <skill>.jsonl is created when absent
OpenAppend(store, skill) ==
    IF HasMain(store[skill], skill) THEN store
    ELSE [store EXCEPT ![skill].files = Append(@, JsonlFile(skill, <<>>, TRUE))]

\* mutant: the text is appended to every .jsonl file of the category
AppendToAll(store, skill, line, complete) ==
    [store EXCEPT ![skill].files =
        [i \in 1..Len(@) |-> WriteText(@[i], line, complete)]]

\* f.write(...) reaching the file <skill>.jsonl
AppendToMain(store, skill, line, complete) ==
    [store EXCEPT ![skill].files =
        [i \in 1..Len(@) |->
            IF @[i].name = skill THEN WriteText(@[i], line, complete) ELSE @[i]]]

\* json.dumps(record, ensure_ascii=False) + "\n" as one line of the file
Dumps(record) == JsonLine(record)

\* the characters that UTF-8 encodes in more than one byte
MultiByte == {"²"}

HasMultiByte(text) == \E i \in 1..Len(text) : text[i] \in MultiByte

\* the text json.dumps(record, ensure_ascii=False) holds a multi-byte
\* character: non-ASCII characters of the strings are written as they are
DumpsMultiByte(record) ==
    \/ HasMultiByte(record.question)
    \/ \E i \in 1..Len(record.choices) : HasMultiByte(record.choices[i])
    \/ \E i \in 1..Len(record.images.v) : HasMultiByte(record.images.v[i])

SubmitFrame ==
    /\ UNCHANGED <<phase, imgdir, annroot, image_sets, idx, q_text, choice_vars,
                   gt_var, skill_var>>
    /\ UNCHANGED <<scorerVars, pureVars>>

\* a validation check fails: the error dialog, return
SubmitRejected ==
    /\ FormVerdict # "ok"
    /\ dialog' = FormVerdict
    /\ UNCHANGED <<disk, all_ann, set_index, asked, attempts, saved>>
    /\ SubmitFrame

\* _get_jsonl_path_for_skill raises: the category path is a regular file, or
\* the directory cannot be created; the exception leaves submit
SubmitMkdirRaises ==
    /\ FormVerdict = "ok"
    /\ disk[FormSkill].kind # "dir"
    /\ dialog' = "uncaught"
    /\ attempts' = attempts + 1
    /\ UNCHANGED <<disk, all_ann, set_index, asked, saved>>
    /\ SubmitFrame

(* open, write or close raises inside the try: "Write failed", return.      *)
(* how = "open": the file is not opened; "nothing": it is opened (created)  *)
(* and nothing reaches it; "truncated": a proper prefix of the JSON text    *)
(* reaches it; "split": a prefix of its bytes that ends inside a multi-byte *)
(* character does, which leaves bytes that are not UTF-8; "unterminated":   *)
(* the JSON text without its newline does; "close": the whole line with its *)
(* newline reaches the file and closing the file then reports an error.     *)
SubmitWriteFailed(how) ==
    /\ FormVerdict = "ok"
    /\ disk[FormSkill].kind # "file"
    /\ how = "split" => DumpsMultiByte(FormRecord)
    /\ LET made   == MakeDir(disk, FormSkill)
           opened == OpenAppend(made, FormSkill)
       IN  disk' = CASE how = "open" -> made
                     [] how = "nothing" -> opened
                     [] how = "truncated" ->
                            AppendToMain(opened, FormSkill, BadLine, FALSE)
                     [] how = "split" ->
                            AppendToMain(opened, FormSkill, UndecodableLine, FALSE)
                     [] how = "unterminated" ->
                            AppendToMain(opened, FormSkill, Dumps(FormRecord), FALSE)
                     [] how = "close" ->
                            AppendToMain(opened, FormSkill, Dumps(FormRecord), TRUE)
    /\ dialog' = "Write failed"
    /\ attempts' = attempts + 1
    /\ UNCHANGED <<all_ann, set_index, asked, saved>>
    /\ SubmitFrame

(* The line is appended; the record list and the index are updated; the     *)
(* "already asked" panel is refreshed and "Saved" is shown.  When the        *)
(* refresh raises, the exception leaves submit after the updates and no      *)
(* dialog is shown.                                                          *)
SubmitSaved ==
    /\ FormVerdict = "ok"
    /\ disk[FormSkill].kind # "file"
    /\ disk' = AppendToMain(OpenAppend(MakeDir(disk, FormSkill), FormSkill),
                            FormSkill, Dumps(FormRecord), TRUE)
    /\ all_ann' = Append(all_ann, FormRecord)
    /\ set_index' = IndexAppend(set_index, CanonicalKey(image_sets[idx + 1]), FormRecord)
    /\ asked' = AskedFor(set_index', image_sets, idx)
    /\ dialog' = IF AskedRaises(set_index', image_sets, idx) THEN "uncaught" ELSE "Saved"
    /\ attempts' = attempts + 1
    /\ saved' = Append(saved, [unit |-> idx, rec |-> FormRecord])
    /\ SubmitFrame

WriteFaults == {"open", "nothing", "truncated", "split", "unterminated", "close"}

submit ==
    /\ phase = "running"
    /\ attempts < MaxSubmits
    /\ \/ SubmitRejected
       \/ SubmitMkdirRaises
       \/ \E how \in WriteFaults : SubmitWriteFailed(how)
       \/ SubmitSaved

-----------------------------------------------------------------------------
(* The file systems and the form inputs the session is explored on          *)

\* file names of the images directory
F_0_a == <<"0", "_", "a", ".", "j", "p", "g">>

F_0_b == <<"0", "_", "b", ".", "j", "p", "g">>

F_1_a == <<"1", "_", "a", ".", "j", "p", "g">>

F_2_a == <<"2", "_", "a", ".", "j", "p", "e", "g">>

F_2_B == <<"2", "_", "B", ".", "j", "p", "g">>

F_10_a == <<"1", "0", "_", "a", ".", "P", "N", "G">>

F_3_x == <<"3", "_", "x", ".", "j", "p", "g">>

F_cover == <<"c", "o", "v", "e", "r", ".", "p", "n", "g">>

F_notes == <<"0", "_", "n", ".", "t", "x", "t">>

\* a prefix that is one superscript digit; a superscript digit between digits
F_s_a == <<"²", "_", "a", ".", "j", "p", "g">>

F_0_s == <<"0", "_", "1", "²", "2", ".", "j", "p", "g">>

F_b_1 == <<"b", "_", "1", ".", "p", "n", "g">>

\* two names whose prefixes "1" and "01" have equal natural keys
F_01_a == <<"0", "1", "_", "a", ".", "j", "p", "g">>

\* a name that differs from 0_a.jpg only in letter case
F_0_A == <<"0", "_", "A", ".", "j", "p", "g">>

\* a path with a directory component naming 0_b.jpg
P_x_0_b == <<"x", "/">> \o F_0_b

File(name) == [name |-> name, isfile |-> TRUE]

SubDir(name) == [name |-> name, isfile |-> FALSE]

Dir(entries) == [exists |-> TRUE, entries |-> entries]

DirMissing == [exists |-> FALSE, entries |-> <<>>]

DirA == Dir(<<File(F_0_a), File(F_0_b), File(F_1_a)>>)

DirB == Dir(<<File(F_1_a), File(F_notes), File(F_0_b), SubDir(F_3_x), File(F_cover),
              File(F_0_a)>>)

DirC == Dir(<<File(F_10_a), File(F_2_B), File(F_2_a)>>)

DirNoMatch == Dir(<<File(F_cover), File(F_notes), SubDir(F_3_x)>>)

\* three units, enumerated out of order
DirD == Dir(<<File(F_10_a), File(F_2_B), File(F_0_a), File(F_2_a)>>)

\* one unit
DirOne == Dir(<<File(F_0_b), File(F_0_a)>>)

DirEmpty == Dir(<<>>)

DirSuper == Dir(<<File(F_0_a), File(F_s_a)>>)

\* texts
T_a == <<"a">>

T_b == <<"b">>

T_c == <<"c">>

T_d == <<"d">>

T_q == <<"w", "h", "o">>

\* a question with a character outside ASCII
T_m2 == <<"m", "²">>

\* records found in the store at session start
RecA == JsonObject("navigation", ImagesList(<<F_0_a, F_0_b>>), <<T_a, T_b, T_c, T_d>>,
                   0, T_q)

RecB == JsonObject("navigation", ImagesList(<<P_x_0_b, F_0_a>>), <<T_a, T_b, T_c, T_d>>,
                   1, T_q)

RecC == JsonObject("occlusion_visibility", ImagesList(<<F_1_a>>),
                   <<T_a, T_b, T_c, T_d>>, 3, T_q)

\* records of unit 1 and of unit 0 whose question is null / a number
RecNullQuestion ==
    [JsonObject("navigation", ImagesList(<<F_1_a>>), <<T_a, T_b, T_c, T_d>>, 0, <<>>)
        EXCEPT !.qk = "other"]

RecNumberQuestion == [RecA EXCEPT !.question = <<>>, !.qk = "other"]

RecNoImages == [RecA EXCEPT !.images = [k |-> "absent", v |-> <<>>]]

RecStrImages == [RecA EXCEPT !.images = [k |-> "string", v |-> <<>>]]

RecEmptyImages == [RecA EXCEPT !.images = ImagesList(<<>>)]

RecMixedImages == [RecA EXCEPT !.images = [k |-> "mixed", v |-> <<F_0_a>>]]

NotAnObject == [NoVal EXCEPT !.type = "other"]

Store(nav, occ) ==
    [sk \in SkillSet |->
        IF sk = "navigation" THEN nav
        ELSE IF sk = "occlusion_visibility" THEN occ
        ELSE NoDir]

StoreEmpty == Store(NoDir, NoDir)

\* both category paths in use are regular files
StoreNoDirs == Store(NotADir, NotADir)

StoreMain ==
    Store(CatDir(<<JsonlFile("navigation",
                             <<BadLine, JsonLine(RecA), BlankLine, JsonLine(RecB),
                               JsonLine(RecNoImages)>>, TRUE)>>),
          NotADir)

StoreFallback ==
    Store(CatDir(<<JsonlFile("old", <<JsonLine(RecA)>>, TRUE)>>), CatDir(<<>>))

StoreUnterminated ==
    Store(CatDir(<<JsonlFile("navigation", <<JsonLine(RecB)>>, FALSE)>>),
          CatDir(<<JsonlFile("occlusion_visibility", <<JsonLine(RecC), BlankLine>>,
                             FALSE)>>))

StoreTwoFiles ==
    Store(CatDir(<<JsonlFile("old", <<JsonLine(RecB)>>, TRUE),
                   JsonlFile("navigation",
                             <<JsonLine(RecStrImages), JsonLine(RecA),
                               JsonLine(RecEmptyImages)>>, TRUE)>>),
          CatDir(<<JsonlFile("b", <<JsonLine(RecC)>>, TRUE),
                   JsonlFile("a", <<JsonLine(RecA)>>, TRUE)>>))

StoreUndecodable ==
    Store(CatDir(<<JsonlFile("navigation", <<UndecodableLine, JsonLine(RecA)>>,
                             TRUE)>>),
          NoDir)

StoreNotAnObject ==
    Store(CatDir(<<JsonlFile("navigation", <<JsonLine(RecA), JsonLine(NotAnObject)>>,
                             TRUE)>>),
          NoDir)

StoreMixedImages ==
    Store(NoDir,
          CatDir(<<JsonlFile("occlusion_visibility", <<JsonLine(RecMixedImages)>>,
                             TRUE)>>))

StoreNullQuestion ==
    Store(CatDir(<<JsonlFile("navigation",
                             <<JsonLine(RecA), JsonLine(RecC), JsonLine(RecNullQuestion)>>,
                             TRUE)>>),
          NotADir)

StoreNumberQuestion ==
    Store(CatDir(<<JsonlFile("navigation", <<JsonLine(RecA), JsonLine(RecNumberQuestion)>>,
                             TRUE)>>),
          NoDir)

Scenario(dir, root, store) == [dir |-> dir, root |-> root, store |-> store]

Scenarios ==
    { Scenario(DirMissing, TRUE, StoreEmpty),
      Scenario(DirA, FALSE, StoreEmpty),
      Scenario(DirNoMatch, TRUE, StoreMain),
      Scenario(DirA, TRUE, StoreMain),
      Scenario(DirB, TRUE, StoreFallback),
      Scenario(DirOne, TRUE, StoreUnterminated),
      Scenario(DirC, TRUE, StoreTwoFiles),
      Scenario(DirA, TRUE, StoreUndecodable),
      Scenario(DirA, TRUE, StoreNotAnObject),
      Scenario(DirC, TRUE, StoreMixedImages),
      Scenario(DirD, TRUE, StoreNoDirs),
      Scenario(DirOne, TRUE, StoreEmpty),
      Scenario(DirEmpty, TRUE, StoreMain),
      Scenario(DirNoMatch, TRUE, StoreUndecodable),
      Scenario(DirMissing, TRUE, StoreNotAnObject),
      Scenario(DirA, FALSE, StoreMixedImages),
      Scenario(DirSuper, TRUE, StoreEmpty),
      Scenario(DirA, TRUE, StoreNullQuestion),
      Scenario(DirA, TRUE, StoreNumberQuestion) }

\* what the user types and picks
Form(q, choices, gt, skill) == [q |-> q, choices |-> choices, gt |-> gt, skill |-> skill]

Typed_q == <<" ", "w", "h", "y", " ", "s", "o", "\n">>

Typed_a == <<" ", "a">>

Typed_b == <<"b", " ">>

FormInputs ==
    { Form(Typed_q, <<Typed_a, Typed_b, T_c, T_d>>, 1, "navigation"),
      Form(T_m2, <<T_a, T_b, T_c, T_d, Typed_a>>, 4, "occlusion_visibility"),
      Form(T_q, <<T_a, <<" ">>, T_c, T_d>>, 1, "navigation"),
      Form(T_q, <<T_a, T_b, T_c, T_d>>, -1, "navigation") }

ScorerIdle ==
    /\ samples = <<>>
    /\ present = {}
    /\ si = 0
    /\ results = <<>>
    /\ spc = "idle"

PureIdle ==
    /\ fin = <<>>
    /\ fout = <<>>

Init ==
    /\ \E sc \in Scenarios :
          /\ imgdir = sc.dir
          /\ annroot = sc.root
          /\ disk = sc.store
    /\ phase = "boot"
    /\ dialog = "none"
    /\ image_sets = <<>>
    /\ idx = 0
    /\ all_ann = <<>>
    /\ set_index = <<>>
    /\ asked = <<>>
    /\ q_text = <<>>
    /\ choice_vars = <<>>
    /\ gt_var = -1
    /\ skill_var = ""
    /\ attempts = 0
    /\ saved = <<>>
    /\ ScorerIdle
    /\ PureIdle

Next ==
    \/ Start
    \/ prev_set
    \/ next_set
    \/ add_choice_field
    \/ \E f \in FormInputs : FillForm(f)
    \/ submit

Spec == Init /\ [][Next]_vars

-----------------------------------------------------------------------------
(* Session start on every combination of images directory, annotation root  *)
(* and store, followed by the session where one starts                      *)

StartStores ==
    {StoreEmpty, StoreMain, StoreFallback, StoreUnterminated, StoreTwoFiles,
     StoreUndecodable, StoreNotAnObject, StoreMixedImages}

StartScenarios ==
    {Scenario(d, r, st) :
        <<d, r, st>> \in {DirMissing, DirEmpty, DirNoMatch} \X BOOLEAN \X StartStores}
    \cup {Scenario(DirA, FALSE, st) : st \in StartStores}
    \cup {Scenario(DirA, TRUE, StoreEmpty), Scenario(DirSuper, TRUE, StoreMain)}

InitStart ==
    /\ \E sc \in StartScenarios :
          /\ imgdir = sc.dir
          /\ annroot = sc.root
          /\ disk = sc.store
    /\ phase = "boot"
    /\ dialog = "none"
    /\ image_sets = <<>>
    /\ idx = 0
    /\ all_ann = <<>>
    /\ set_index = <<>>
    /\ asked = <<>>
    /\ q_text = <<>>
    /\ choice_vars = <<>>
    /\ gt_var = -1
    /\ skill_var = ""
    /\ attempts = 0
    /\ saved = <<>>
    /\ ScorerIdle
    /\ PureIdle

NextStart ==
    \/ Start
    \/ prev_set
    \/ next_set
    \/ add_choice_field
    \/ \E f \in FormInputs : FillForm(f)
    \/ submit

SpecStart == InitStart /\ [][NextStart]_vars

-----------------------------------------------------------------------------
(* submit as a function of the form: every form, reachable by typing or not *)

SeqsUpTo(S, n) == UNION {[1..k -> S] : k \in 0..n}

SubmitSkills == {"navigation", "occlusion_visibility", "egocentric_motion", ""}

SubmitQuestions == {<<" ">>, Typed_q}

SubmitChoiceTexts == {<<" ">>, Typed_a}

InitSubmit ==
    /\ imgdir = DirA
    /\ annroot = TRUE
    /\ disk = StoreMain
    /\ LET s == SessionStart(imgdir, annroot, disk)
       IN  /\ phase = s.phase
           /\ dialog = s.dialog
           /\ image_sets = s.image_sets
           /\ all_ann = s.all_ann
           /\ set_index = s.set_index
    /\ idx \in 0..(Len(image_sets) - 1)
    /\ asked = AskedFor(set_index, image_sets, idx)
    /\ skill_var \in SubmitSkills
    /\ q_text \in SubmitQuestions
    /\ choice_vars \in SeqsUpTo(SubmitChoiceTexts, MaxChoiceFields)
    /\ gt_var \in -1..MaxChoiceFields
    /\ attempts = 0
    /\ saved = <<>>
    /\ ScorerIdle
    /\ PureIdle

NextSubmit == submit

SpecSubmit == InitSubmit /\ [][NextSubmit]_vars

-----------------------------------------------------------------------------
(* The store reader as a function of the store                              *)

MaxLines == 3

LineInputs ==
    {BadLine, BlankLine, UndecodableLine, JsonLine(RecA), JsonLine(RecB),
     JsonLine(NotAnObject)}

LoadStores ==
    { Store(CatDir(<<JsonlFile("navigation", lines, TRUE)>>), occ) :
        <<lines, occ>> \in
            SeqsUpTo(LineInputs, MaxLines)
            \X { NoDir, NotADir, CatDir(<<>>),
                 CatDir(<<JsonlFile("b", <<JsonLine(RecC)>>, TRUE),
                          JsonlFile("a", <<JsonLine(RecA)>>, TRUE)>>),
                 CatDir(<<JsonlFile("old", <<JsonLine(RecA)>>, TRUE),
                          JsonlFile("occlusion_visibility",
                                    <<BadLine, JsonLine(RecC)>>, FALSE)>>) } }

SessionIdle ==
    /\ phase = "idle"
    /\ imgdir = DirMissing
    /\ annroot = FALSE
    /\ disk = StoreEmpty
    /\ dialog = "none"
    /\ image_sets = <<>>
    /\ idx = 0
    /\ all_ann = <<>>
    /\ set_index = <<>>
    /\ asked = <<>>
    /\ q_text = <<>>
    /\ choice_vars = <<>>
    /\ gt_var = -1
    /\ skill_var = ""
    /\ attempts = 0
    /\ saved = <<>>

InitLoad ==
    /\ fin \in LoadStores
    /\ fout = [done |-> FALSE, raised |-> FALSE, ann |-> <<>>]
    /\ SessionIdle
    /\ ScorerIdle

\* one call load_all_annotations(ann_root) on the store fin
Load ==
    /\ ~fout.done
    /\ LET r == load_all_annotations(fin)
       IN  fout' = [done |-> TRUE, raised |-> r.raised,
                    ann |-> IF r.raised THEN <<>> ELSE r.ann]
    /\ UNCHANGED fin
    /\ UNCHANGED <<sessionVars, scorerVars>>

NextLoad == Load

SpecLoad == InitLoad /\ [][NextLoad]_vars

-----------------------------------------------------------------------------
(* The index build as a function of the values the reader returns           *)

MaxRecords == 3

IndexValues ==
    {RecA, RecB, RecC, RecNoImages, RecStrImages, RecEmptyImages, RecMixedImages,
     NotAnObject}

InitIndex ==
    /\ fin \in SeqsUpTo(IndexValues, MaxRecords)
    /\ fout = [done |-> FALSE, raised |-> FALSE, idx |-> <<>>]
    /\ SessionIdle
    /\ ScorerIdle

\* one call build_set_index(ann_list) on the list fin
Build ==
    /\ ~fout.done
    /\ LET r == build_set_index(fin)
       IN  fout' = [done |-> TRUE, raised |-> r.raised, idx |-> r.idx]
    /\ UNCHANGED fin
    /\ UNCHANGED <<sessionVars, scorerVars>>

NextIndex == Build

SpecIndex == InitIndex /\ [][NextIndex]_vars

-----------------------------------------------------------------------------
(* The grouper as a function of the directory listing                       *)

MaxEntries == 3

GrouperEntries ==
    {File(F_0_a), File(F_0_b), File(F_1_a), File(F_2_a), File(F_2_B), File(F_10_a),
     File(F_b_1), File(F_cover), File(F_notes), SubDir(F_3_x), File(F_s_a),
     File(F_0_s), File(F_01_a), File(F_0_A)}

\* a directory holds one entry per name
DistinctEntries(es) == \A i, j \in 1..Len(es) : i # j => es[i].name # es[j].name

InitGrouper ==
    /\ fin \in {es \in SeqsUpTo(GrouperEntries, MaxEntries) : DistinctEntries(es)}
    /\ fout = [done |-> FALSE, raised |-> FALSE, sets |-> <<>>]
    /\ SessionIdle
    /\ ScorerIdle

\* one call list_image_sets(img_dir) on the listing fin
Group ==
    /\ ~fout.done
    /\ fout' = [done |-> TRUE, raised |-> GrouperRaises(fin),
                sets |-> IF GrouperRaises(fin) THEN <<>> ELSE list_image_sets(fin)]
    /\ UNCHANGED fin
    /\ UNCHANGED <<sessionVars, scorerVars>>

NextGrouper == Group

SpecGrouper == InitGrouper /\ [][NextGrouper]_vars

-----------------------------------------------------------------------------
(* The batch scorer generate_vqa_retrieval_scores                           *)

MaxSamples == 3

DefaultScore == 0

\* a score: None, or a number
None == [none |-> TRUE, v |-> 0]

Num(x) == [none |-> FALSE, v |-> x]

Sample(images) == [images |-> images, question |-> T_q, ground_truth |-> 0]

ScorerSamples ==
    { Sample(<<F_0_a, F_0_b>>),      \* both files exist
      Sample(<<F_1_a, F_0_b>>),      \* the first is missing
      Sample(<<F_0_a, F_1_a>>),      \* the second is missing
      Sample(<<F_1_a, F_3_x>>) }     \* both are missing

\* the files under video_base_path
ScorerFiles == {F_0_a, F_0_b}

\* what the model call and the reading of its four scores can do: raise, give
\* four numbers, or give a result from which the fourth cannot be read
ModelScores == <<9, 6, 3, 1>>

ModelOutcomes == {"raises", "four", "three"}

ResultEntry(sample) ==
    [agent1_image |-> sample.images[1], agent2_image |-> sample.images[2],
     question |-> sample.question, ground_truth |-> sample.ground_truth,
     agent1_score |-> None, agent2_score |-> None, neither_score |-> None,
     both_score |-> None, error |-> "None", neither |-> None, both |-> None]

\* the branch taken when the first image is missing
FirstMissingEntry(sample) ==
    [ResultEntry(sample) EXCEPT
        !.error = "Image file not found",
        !.agent1_score = Num(DefaultScore), !.agent2_score = Num(DefaultScore),
        !.neither_score = Num(DefaultScore), !.both_score = Num(DefaultScore)]

\* the try block ran to its end
ScoredEntry(sample) ==
    [ResultEntry(sample) EXCEPT
        !.agent1_score = Num(ModelScores[1]), !.agent2_score = Num(ModelScores[2]),
        !.neither_score = Num(ModelScores[3]), !.both_score = Num(ModelScores[4])]

\* the except block, after the try block assigned the first n scores
FailedEntry(sample, n) ==
    [ResultEntry(sample) EXCEPT
        !.error = "exception",
        !.agent1_score = Num(DefaultScore), !.agent2_score = Num(DefaultScore),
        !.neither_score = IF n >= 3 THEN Num(ModelScores[3]) ELSE None,
        !.neither = Num(DefaultScore), !.both = Num(DefaultScore)]

InitScorer ==
    /\ samples \in SeqsUpTo(ScorerSamples, MaxSamples)
    /\ present = ScorerFiles
    /\ si = 0
    /\ results = <<>>
    /\ spc = "run"
    /\ SessionIdle
    /\ PureIdle

\* one iteration of the loop over samples
ScoreSample ==
    /\ spc = "run"
    /\ si < Len(samples)
    /\ LET sample == samples[si + 1]
       IN  IF Len(sample.images) < 2
           THEN \* sample['images'][1] raises IndexError, which leaves the function
                /\ spc' = "raised"
                /\ UNCHANGED <<si, results>>
           ELSE IF sample.images[1] \notin present
           THEN /\ results' = Append(results, FirstMissingEntry(sample))
                /\ si' = si + 1
                /\ UNCHANGED spc
           ELSE IF sample.images[2] \notin present
           THEN \* the error is noted on result_entry; continue
                /\ si' = si + 1
                /\ UNCHANGED <<results, spc>>
           ELSE \E out \in ModelOutcomes :
                /\ results' = Append(results,
                                 CASE out = "four" -> ScoredEntry(sample)
                                   [] out = "three" -> FailedEntry(sample, 3)
                                   [] out = "raises" -> FailedEntry(sample, 0))
                /\ si' = si + 1
                /\ UNCHANGED spc
    /\ UNCHANGED <<samples, present>>
    /\ UNCHANGED <<sessionVars, pureVars>>

\* return results
ScorerReturn ==
    /\ spc = "run"
    /\ si = Len(samples)
    /\ spc' = "returned"
    /\ UNCHANGED <<samples, present, si, results>>
    /\ UNCHANGED <<sessionVars, pureVars>>

NextScorer == ScoreSample \/ ScorerReturn

SpecScorer == InitScorer /\ [][NextScorer]_vars

-----------------------------------------------------------------------------
(* Claims                                                                   *)

\* the lookup of every image unit of the session, in unit order
Lookups(index) == [i \in 1..Len(image_sets) |-> Lookup(index, image_sets[i])]

\* C1 (as claimed): whenever a submit passes validation and its disk append
\* fails (creating the directory, opening or writing raises), the "Write
\* failed" dialog reports it and the index, the record list and every unit's
\* lookup are what they were before the call.
C1_AppendFailureReported ==
    [][(attempts' = attempts + 1 /\ saved' = saved)
        => /\ dialog' = "Write failed"
           /\ set_index' = set_index
           /\ all_ann' = all_ann
           /\ Lookups(set_index') = Lookups(set_index)]_vars

\* the rules of a well-formed candidate, as the specification lists them
CandidateSkillOk == skill_var \in SkillSet

CandidateQuestionOk == Strip(q_text \o <<"\n">>) # <<>>

CandidateChoicesFilled == \A i \in 1..Len(choice_vars) : Strip(choice_vars[i]) # <<>>

CandidateEnoughChoices == Len(choice_vars) >= 4

CandidateGroundTruthOk == gt_var \in 0..(Len(choice_vars) - 1)

CandidateValid ==
    /\ CandidateSkillOk
    /\ CandidateQuestionOk
    /\ CandidateChoicesFilled
    /\ CandidateEnoughChoices
    /\ CandidateGroundTruthOk

\* C2: a submit of a candidate that violates a validation rule (ground_truth
\* = len(choices) included) leaves the store files, the index, the record
\* list and the form (question, choices, ground truth, skill) as they were,
\* and shows a validation error.
C2_RejectedSubmitChangesNothing ==
    [][~CandidateValid
        => /\ disk' = disk
           /\ set_index' = set_index
           /\ all_ann' = all_ann
           /\ <<q_text', choice_vars', gt_var', skill_var'>>
                 = <<q_text, choice_vars, gt_var, skill_var>>
           /\ dialog' \notin {"Saved", "Write failed", "uncaught", "none"}]_vars

\* C2 witness: a submit with ground_truth = len(choices) on an otherwise valid
\* form was rejected with the ground-truth error
C2_Witness ==
    /\ dialog = "Ground truth"
    /\ Len(choice_vars) >= 4
    /\ gt_var = Len(choice_vars)

\* C3: read-your-writes.  In a running session, for every unit on which a
\* submit wrote a record, the lookup of the unit in the in-memory index under
\* its canonical key (the query of _refresh_already_asked) is not empty and
\* ends with the record last written on the unit: right after the submit and
\* after any navigation, whether or not it came back to the unit, and
\* whatever the files hold by then.
C3_ReadYourWrites ==
    phase = "running" =>
        \A i \in 1..Len(saved) :
            (\A j \in (i + 1)..Len(saved) : saved[j].unit # saved[i].unit)
            => LET got == Lookup(set_index, image_sets[saved[i].unit + 1])
               IN  got # <<>> /\ got[Len(got)] = saved[i].rec

\* C3 witness: a record was saved on a unit that had records already, in a
\* session of several units; the user navigated away and back (no dialog is
\* up, the form is empty again) and the lookup of the unit ends with the record
C3_Witness ==
    /\ phase = "running"
    /\ dialog = "none"
    /\ Len(image_sets) >= 2
    /\ saved # <<>>
    /\ saved[Len(saved)].unit = idx
    /\ q_text = <<>>
    /\ LET got == Lookup(set_index, image_sets[idx + 1])
       IN  Len(got) >= 2 /\ got[Len(got)] = saved[Len(saved)].rec

\* what a new session would hold for each unit: the reader followed by the
\* index build on the files as they are now
FreshLookups ==
    LET loaded == load_all_annotations(disk)
        built  == build_set_index(loaded.ann)
    IN  IF loaded.raised \/ built.raised THEN <<>> ELSE Lookups(built.idx)

\* C4 (as claimed): while no disk append of the session has failed, every
\* unit's lookup in the in-memory index equals its lookup in the index a new
\* session would build from the files.
C4_IndexAgreesWithStore ==
    (phase = "running" /\ attempts = Len(saved))
        => Lookups(set_index) = FreshLookups

\* the dialog the validation order of the specification gives a candidate
FirstViolation ==
    IF ~CandidateSkillOk THEN "Missing skill"
    ELSE IF ~CandidateQuestionOk THEN "Missing question"
    ELSE IF ~CandidateChoicesFilled THEN "Choices: no empty choices"
    ELSE IF ~CandidateEnoughChoices THEN "Choices: at least 4"
    ELSE IF ~CandidateGroundTruthOk THEN "Ground truth"
    ELSE "ok"

\* C5: submit reports exactly the first violated rule in the order skill,
\* question, empty choice, choice count, ground truth; a candidate violating
\* none passes validation; a rejection leaves the index size unchanged.
C5_FirstViolationReported ==
    [][IF FirstViolation = "ok"
       THEN dialog' \in {"Saved", "Write failed", "uncaught"}
       ELSE /\ dialog' = FirstViolation
            /\ Len(all_ann') = Len(all_ann)
            /\ set_index' = set_index]_vars

\* C5 witness: three non-empty choices were rejected for their number
C5_Witness ==
    /\ dialog = "Choices: at least 4"
    /\ Len(choice_vars) = 3
    /\ CandidateChoicesFilled
    /\ saved = <<>>

IsTrimmed(t) == t # <<>> /\ Strip(t) = t

WellFormed(r) ==
    /\ r.type = "object"
    /\ r.skill \in SkillSet
    /\ r.qk = "str"
    /\ IsTrimmed(r.question)
    /\ Len(r.choices) >= 4
    /\ \A i \in 1..Len(r.choices) : IsTrimmed(r.choices[i])
    /\ r.ground_truth \in 0..(Len(r.choices) - 1)
    /\ r.images.k = "list"

\* the values the store files of the explored file systems hold at the start
StoredValues ==
    {RecA, RecB, RecC, RecNoImages, RecStrImages, RecEmptyImages, RecMixedImages,
     RecNullQuestion, RecNumberQuestion, NotAnObject}

\* the JSON values of the lines of the store files
DiskValues ==
    {disk[sk].files[i].lines[j].val :
        <<sk, i, j>> \in {t \in SkillSet \X (1..2) \X (1..8) :
            /\ t[2] <= Len(disk[t[1]].files)
            /\ t[3] <= Len(disk[t[1]].files[t[2]].lines)
            /\ disk[t[1]].files[t[2]].lines[t[3]].kind = "json"}}

\* C6: every record submit saved is well-formed (skill of the category set,
\* trimmed non-empty question, at least 4 trimmed non-empty choices, ground
\* truth an index of them) with the images of the unit it was saved on, in
\* grouping order; the records beyond those loaded at the start are exactly
\* these; each is in the index; and the store holds no other new value.
C6_SavedRecordsWellFormed ==
    /\ \A i \in 1..Len(saved) :
          /\ WellFormed(saved[i].rec)
          /\ saved[i].rec.images.v = image_sets[saved[i].unit + 1]
          /\ all_ann[Len(all_ann) - Len(saved) + i] = saved[i].rec
          /\ \E k \in 1..Len(Lookup(set_index, image_sets[saved[i].unit + 1])) :
                Lookup(set_index, image_sets[saved[i].unit + 1])[k] = saved[i].rec
    /\ \A v \in DiskValues : v \in StoredValues \/ WellFormed(v)

\* C6 witness: a record typed with surrounding blanks was saved trimmed, on
\* the second unit, after an invalid form had been rejected
C6_Witness ==
    /\ dialog = "Saved"
    /\ idx = 1
    /\ choice_vars[1] = Typed_a
    /\ saved[Len(saved)].rec.choices[1] = T_a
    /\ saved[Len(saved)].rec \in DiskValues

AllDistinct(seq) == \A i, j \in 1..Len(seq) : i # j => seq[i] # seq[j]

\* C9 (as claimed): every unit of the session has 2 or more file names, all
\* distinct, and so has the images field of every saved record.
C9_UnitsHaveTwoOrMore ==
    phase = "running" =>
        /\ \A i \in 1..Len(image_sets) :
              Len(image_sets[i]) >= 2 /\ AllDistinct(image_sets[i])
        /\ \A i \in 1..Len(saved) : Len(saved[i].rec.images.v) >= 2

\* C9 (amended): every unit of the session has 1 or more file names, all
\* distinct, and so has the images field of every saved record; no unit is
\* empty and there is at least one unit.
C9_UnitsNonEmptyDistinct ==
    phase = "running" =>
        /\ image_sets # <<>>
        /\ \A i \in 1..Len(image_sets) :
              Len(image_sets[i]) >= 1 /\ AllDistinct(image_sets[i])
        /\ \A i \in 1..Len(saved) :
              /\ Len(saved[i].rec.images.v) >= 1
              /\ AllDistinct(saved[i].rec.images.v)

\* C9 witness: a record was saved on a unit of one file, next to a unit of two
C9_Witness ==
    /\ phase = "running"
    /\ dialog = "Saved"
    /\ Len(image_sets[idx + 1]) = 1
    /\ Len(saved[Len(saved)].rec.images.v) = 1
    /\ \E i \in 1..Len(image_sets) : Len(image_sets[i]) = 2

\* the sample an entry was built from has a missing image
MissingImage(sample) ==
    \E k \in 1..Len(sample.images) : k <= 2 /\ sample.images[k] \notin present

DefaultScores(e) ==
    /\ e.agent1_score = Num(DefaultScore)
    /\ e.agent2_score = Num(DefaultScore)
    /\ e.neither_score = Num(DefaultScore)
    /\ e.both_score = Num(DefaultScore)

\* C7 (as claimed): the scorer never raises and never drops a sample: every
\* sample consumed has its entry, in input order, the returned list has one
\* entry per sample, and the entry of a sample with a missing image has the
\* default scores and an error note.
C7_OneEntryPerSample ==
    /\ spc # "raised"
    /\ Len(results) = si
    /\ spc = "returned" => Len(results) = Len(samples)
    /\ \A i \in 1..Len(results) :
          /\ results[i].agent1_image = samples[i].images[1]
          /\ results[i].agent2_image = samples[i].images[2]
          /\ MissingImage(samples[i])
                => results[i].error # "None" /\ DefaultScores(results[i])

\* C8 (as claimed): every entry of the results carries four numbers: the
\* default score, with the error set, when an image is missing or the model
\* call fails; the model's scores, with no error, when it succeeds.
C8_FourNumericScores ==
    \A i \in 1..Len(results) :
        LET e == results[i]
        IN  /\ ~e.agent1_score.none /\ ~e.agent2_score.none
            /\ ~e.neither_score.none /\ ~e.both_score.none
            /\ e.error # "None" => DefaultScores(e)
            /\ e.error = "None"
                  => <<e.agent1_score, e.agent2_score, e.neither_score, e.both_score>>
                        = [k \in 1..4 |-> Num(ModelScores[k])]

IsJsonLine(l) == l.kind = "json"

ValuesOf(lines) == [i \in 1..Len(lines) |-> lines[i].val]

\* the lines json.loads accepts, in line order, of the backing file of a
\* category: <category>.jsonl, else the first file, else nothing
CategoryValues(store, skill) ==
    LET cat == store[skill]
    IN  IF cat.kind # "dir" \/ cat.files = <<>> THEN <<>>
        ELSE IF \E i \in 1..Len(cat.files) : cat.files[i].name = skill
        THEN LET i == CHOOSE i \in 1..Len(cat.files) : cat.files[i].name = skill
             IN  ValuesOf(SelectSeq(cat.files[i].lines, IsJsonLine))
        ELSE ValuesOf(SelectSeq(cat.files[1].lines, IsJsonLine))

RECURSIVE ConcatValues(_, _)
ConcatValues(store, skills) ==
    IF skills = <<>> THEN <<>>
    ELSE CategoryValues(store, Head(skills)) \o ConcatValues(store, Tail(skills))

\* C10 (as claimed): the reader never aborts on a bad line; it returns exactly
\* the lines that parse, in category-list order and line order within a
\* category; a missing directory or file contributes nothing.
C10_ReaderSkipsBadLines ==
    fout.done =>
        /\ ~fout.raised
        /\ fout.ann = ConcatValues(fin, SKILL_OPTIONS)

\* the claim's reading of an entry: it has an images field that is a
\* non-empty list
Indexable(d) == d.type = "object" /\ d.images.k \in {"list", "mixed"} /\ d.images.v # <<>>

\* the sorted tuple of the basenames of the images of an entry
ClaimedKey(d) == SortedStrs([i \in 1..Len(d.images.v) |-> Basename(d.images.v[i])])

\* the entries of ann_list the claim indexes under key, in list order
EntriesUnder(ann_list, key) ==
    LET Has(d) == Indexable(d) /\ ClaimedKey(d) = key
    IN  SelectSeq(ann_list, Has)

\* C11 (as claimed): for every list of values the reader can return the index
\* build completes; every entry without a non-empty images list is skipped
\* and every other entry is listed, in list order, under the sorted tuple of
\* the basenames of its images.
C11_IndexBuildNeverErrors ==
    fout.done =>
        /\ ~fout.raised
        /\ \A i \in 1..Len(fin) :
              Indexable(fin[i]) =>
                  /\ ClaimedKey(fin[i]) \in DOMAIN fout.idx
                  /\ fout.idx[ClaimedKey(fin[i])] = EntriesUnder(fin, ClaimedKey(fin[i]))
        /\ \A key \in DOMAIN fout.idx : EntriesUnder(fin, key) # <<>>

SeqRange(seq) == {seq[i] : i \in 1..Len(seq)}

CountOf(seq, x) == Cardinality({i \in 1..Len(seq) : seq[i] = x})

\* a is a permutation of b
IsPermutation(a, b) ==
    /\ Len(a) = Len(b)
    /\ \A x \in SeqRange(a) \cup SeqRange(b) : CountOf(a, x) = CountOf(b, x)

\* the images of a record with their directory components stripped
Basenames(d) == [i \in 1..Len(d.images.v) |-> Basename(d.images.v[i])]

\* C12: canonical identity does not depend on order and is one on the three
\* paths (index build, lookup, submit update).  In a running session, for
\* every unit U and every record held (loaded at start or saved since) that
\* has a non-empty images list: if its basenames are a permutation of U's
\* file names, the lookup for U returns it; if its set of basenames differs
\* from U's, the lookup for U does not return it; and every record the
\* lookup for U returns has U's set of basenames.
C12_CanonicalIdentity ==
    phase = "running" =>
        \A u \in 1..Len(image_sets) :
            LET U   == image_sets[u]
                got == Lookup(set_index, U)
            IN  /\ \A k \in 1..Len(all_ann) :
                      LET d == all_ann[k]
                      IN  (d.type = "object" /\ d.images.k = "list" /\ d.images.v # <<>>)
                          => /\ IsPermutation(Basenames(d), U) => d \in SeqRange(got)
                             /\ SeqRange(Basenames(d)) # SeqRange(U)
                                   => d \notin SeqRange(got)
                /\ \A k \in 1..Len(got) :
                      SeqRange(Basenames(got[k])) = SeqRange(U)

\* C12 witness: the lookup of the current unit returns a record loaded at
\* start whose images name the unit in another order and through a directory,
\* and after it the record just saved on the unit
C12_Witness ==
    /\ phase = "running"
    /\ dialog = "Saved"
    /\ image_sets[idx + 1] = <<F_0_a, F_0_b>>
    /\ \E k \in 1..Len(asked) : asked[k].images.v = <<P_x_0_b, F_0_a>>
    /\ asked[Len(asked)] = saved[Len(saved)].rec

\* a name of the form {n}_{suffix}.{ext}: an image extension and a stem whose
\* part before the first "_" is a decimal integer
HasIntegerPrefix(name) ==
    /\ Lower(Suffix(name)) \in IMG_EXTS
    /\ FirstIndexOf(Stem(name), "_") > 1
    /\ \A i \in 1..(FirstIndexOf(Stem(name), "_") - 1) : name[i] \in Digits

\* the integer a name of that form starts with
PrefixNumber(name) == IntOf(SubSeq(name, 1, FirstIndexOf(Stem(name), "_") - 1))

\* natural order: digit runs compared as numbers, other runs without case
NaturalLeq(a, b) == ~KeyLess(natural_key(b), natural_key(a))

\* C13 (as claimed): on a directory of files named {n}_{suffix}.{ext} with
\* integer n, list_image_sets returns the units in the numeric order of n (0,
\* 2, 10), one unit per n, and the file names of every unit in natural order.
C13_UnitsInNaturalOrder ==
    (fout.done /\ \A i \in 1..Len(fin) : fin[i].isfile /\ HasIntegerPrefix(fin[i].name))
        => /\ ~fout.raised
           /\ fin # <<>> => fout.sets # <<>>
           /\ \A u \in 1..Len(fout.sets) :
                 /\ fout.sets[u] # <<>>
                 /\ \A j \in 1..(Len(fout.sets[u]) - 1) :
                       NaturalLeq(fout.sets[u][j], fout.sets[u][j + 1])
           /\ \A u \in 1..(Len(fout.sets) - 1) :
                 PrefixNumber(fout.sets[u][1]) < PrefixNumber(fout.sets[u + 1][1])

\* the claim's reading of a qualifying entry: a regular file, an image
\* extension in any case, the separator in the stem
QualifyingFile(e) ==
    /\ e.isfile
    /\ Lower(Suffix(e.name)) \in IMG_EXTS
    /\ \E i \in 1..Len(Stem(e.name)) : Stem(e.name)[i] = "_"

\* the part of the stem before the first separator
ClaimedPrefix(name) ==
    LET st == Stem(name)
        i  == CHOOSE k \in 1..Len(st) : st[k] = "_" /\ \A m \in 1..(k - 1) : st[m] # "_"
    IN  SubSeq(st, 1, i - 1)

\* the places <<u, j>> of the returned units that hold name
PlacesOf(sets, name) ==
    {<<u, j>> \in (1..Len(sets)) \X (1..MaxEntries + 1) :
        j <= Len(sets[u]) /\ sets[u][j] = name}

\* C14 (as claimed): list_image_sets causes no error and partitions exactly
\* the qualifying files: each is in exactly one unit, with exactly the
\* qualifying files of its prefix; every other entry is in no unit; the
\* listing 0_a.jpg, 0_b.jpg, 1_a.jpg gives [0_a.jpg, 0_b.jpg] and [1_a.jpg].
C14_PartitionOfQualifyingFiles ==
    fout.done =>
        /\ ~fout.raised
        /\ \A i \in 1..Len(fin) :
              IF QualifyingFile(fin[i])
              THEN /\ Cardinality(PlacesOf(fout.sets, fin[i].name)) = 1
                   /\ \A pl \in PlacesOf(fout.sets, fin[i].name) :
                         SeqRange(fout.sets[pl[1]]) =
                            {fin[k].name : k \in {m \in 1..Len(fin) :
                                /\ QualifyingFile(fin[m])
                                /\ ClaimedPrefix(fin[m].name) = ClaimedPrefix(fin[i].name)}}
              ELSE PlacesOf(fout.sets, fin[i].name) = {}
        /\ \A u \in 1..Len(fout.sets) : \A j \in 1..Len(fout.sets[u]) :
              \E i \in 1..Len(fin) : QualifyingFile(fin[i]) /\ fin[i].name = fout.sets[u][j]
        /\ fin = <<File(F_0_a), File(F_0_b), File(F_1_a)>>
              => fout.sets = <<<<F_0_a, F_0_b>>, <<F_1_a>>>>

IsPrefix(a, b) == Len(a) <= Len(b) /\ SubSeq(b, 1, Len(a)) = a

\* C15: the index is append-only and a successful submit touches its own key
\* only.  In every step of a running session each key keeps its records as
\* a prefix of its new list; a submit on unit U whose write returned appends
\* its record at the end of the list of U's sorted file names and changes
\* the list of no other key; every other step leaves the index as it is.
C15_IndexAppendOnly ==
    [][phase = "running" =>
        /\ \A key \in DOMAIN set_index :
              key \in DOMAIN set_index' /\ IsPrefix(set_index[key], set_index'[key])
        /\ IF saved' # saved
           THEN LET own == SortedStrs(image_sets[idx + 1])
                    rec == saved'[Len(saved')].rec
                    old == IF own \in DOMAIN set_index THEN set_index[own] ELSE <<>>
                IN  /\ DOMAIN set_index' = DOMAIN set_index \cup {own}
                    /\ set_index'[own] = Append(old, rec)
                    /\ \A key \in DOMAIN set_index \ {own} :
                          set_index'[key] = set_index[key]
           ELSE set_index' = set_index]_vars

\* C15 witness: a record was saved on a unit that had two records, then one
\* on another unit, and the first unit's list still ends with the first
C15_Witness ==
    /\ phase = "running"
    /\ dialog = "Saved"
    /\ Len(saved) = 2
    /\ saved[1].unit # saved[2].unit
    /\ LET got == Lookup(set_index, image_sets[saved[1].unit + 1])
       IN  Len(got) = 3 /\ got[3] = saved[1].rec
    /\ Len(Lookup(set_index, image_sets[saved[2].unit + 1])) = 1

\* the conditions under which the claim says the session must not start
StartRefused ==
    \/ ~imgdir.exists
    \/ ~annroot
    \/ \A i \in 1..Len(imgdir.entries) : ~QualifyingFile(imgdir.entries[i])

\* C16: session start is all-or-nothing.  When the images directory or the
\* annotation root is missing, or the directory has no qualifying file, the
\* only step ever taken is the start, and it ends the session with an error
\* shown: no image sets, no record list, no index, the store files as they
\* were (never read: a store whose reading would raise changes nothing), no
\* submit and no navigation.
C16_SessionStartAllOrNothing ==
    [][StartRefused =>
        /\ phase = "boot"
        /\ phase' = "exited"
        /\ dialog' \in {"Images dir not found", "Annotation root not found",
                        "No image sets"}
        /\ disk' = disk
        /\ image_sets' = <<>> /\ all_ann' = <<>> /\ set_index' = <<>>
        /\ idx' = 0 /\ attempts' = 0 /\ saved' = <<>>
        /\ choice_vars' = <<>>]_vars

\* C16 witness: the session was refused on a directory without a qualifying
\* file, next to a store whose first line cannot be decoded
C16_Witness ==
    /\ phase = "exited"
    /\ dialog = "No image sets"
    /\ imgdir = DirNoMatch
    /\ disk = StoreUndecodable
    /\ all_ann = <<>>

\* the values whose complete JSON text a file contains, in file order
RECURSIVE HeldTexts(_)
HeldTexts(lines) ==
    IF lines = <<>> THEN <<>> ELSE Head(lines).holds \o HeldTexts(Tail(lines))

\* the file <skill>.jsonl of a category path, an empty file when there is none
MainFileOf(cat, skill) ==
    IF cat.kind = "dir" /\ \E i \in 1..Len(cat.files) : cat.files[i].name = skill
    THEN cat.files[CHOOSE i \in 1..Len(cat.files) : cat.files[i].name = skill]
    ELSE [name |-> skill, lines |-> <<>>, nl |-> TRUE]

OnDisk(store, r) == r \in SeqRange(HeldTexts(MainFileOf(store[r.skill], r.skill).lines))

\* C17: a submit whose write returned appends exactly one JSON line, the
\* record's, to <ann_root>/<skill>/<skill>.jsonl of the selected skill,
\* creating the directory and the file when absent; it changes no other file of any
\* category; the index and the record list change only in a step whose write
\* succeeded; and in no state does the index hold a record of this session
\* whose text is not in its category's file.
C17_WriteThenIndex ==
    /\ [](phase = "running" =>
            /\ \A i \in 1..Len(saved) : OnDisk(disk, saved[i].rec)
            /\ \A key \in DOMAIN set_index : \A k \in 1..Len(set_index[key]) :
                  set_index[key][k] \in StoredValues \/ OnDisk(disk, set_index[key][k]))
    /\ [][phase = "running" =>
            IF saved' # saved
            THEN LET sk     == skill_var
                     rec    == saved'[Len(saved')].rec
                     before == disk[sk]
                     after  == disk'[sk]
                     old    == MainFileOf(before, sk)
                     new    == MainFileOf(after, sk)
                 IN  /\ rec.skill = sk
                     /\ \A o \in SkillSet \ {sk} : disk'[o] = disk[o]
                     /\ after.kind = "dir"
                     /\ Cardinality({i \in 1..Len(after.files) : after.files[i].name = sk}) = 1
                     /\ \A i \in 1..Len(before.files) :
                           before.files[i].name # sk => after.files[i] = before.files[i]
                     /\ Len(after.files) =
                           Len(before.files) + (IF old \in SeqRange(before.files) THEN 0 ELSE 1)
                     /\ new.nl
                     /\ HeldTexts(new.lines) = Append(HeldTexts(old.lines), rec)
                     /\ Len(new.lines) = Len(old.lines) + (IF old.nl THEN 1 ELSE 0)
                     /\ old.nl => new.lines[Len(new.lines)].kind = "json"
                                  /\ new.lines[Len(new.lines)].val = rec
            ELSE set_index' = set_index /\ all_ann' = all_ann]_vars

\* C17 witness: the first record of a session on an empty annotation root was
\* saved: the category directory and its file were created and hold one line
C17_Witness ==
    /\ phase = "running"
    /\ dialog = "Saved"
    /\ Len(saved) = 1
    /\ disk[skill_var].kind = "dir"
    /\ Len(disk[skill_var].files) = 1
    /\ disk[skill_var].files[1].name = skill_var
    /\ Len(disk[skill_var].files[1].lines) = 1
    /\ disk[skill_var].files[1].lines[1].val = saved[1].rec
    /\ \A o \in SkillSet \ {skill_var} : disk[o] = NoDir

\* C18 (as claimed): navigation is a pure cancel.  A prev_set or next_set step empties the
\* question, leaves exactly 4 empty choice fields and no ground truth
\* selected, and moves the current unit to a neighbour; it changes neither
\* the store files, the index, the record list, the selected skill nor the
\* image units; and no step of a running session changes the image units.
C18_NavigationIsPureCancel ==
    [][/\ (prev_set \/ next_set) =>
            /\ q_text' = <<>>
            /\ choice_vars' = <<<<>>, <<>>, <<>>, <<>>>>
            /\ gt_var' = -1
            /\ idx' \in {(idx + 1) % Len(image_sets), (idx - 1) % Len(image_sets)}
            /\ disk' = disk
            /\ set_index' = set_index
            /\ all_ann' = all_ann
            /\ image_sets' = image_sets
            /\ skill_var' = skill_var
            /\ saved' = saved /\ attempts' = attempts
       /\ phase = "running" => image_sets' = image_sets /\ phase' = "running"]_vars

\* the unit reached from unit i by k presses of Next
RECURSIVE NextTimes(_, _, _)
NextTimes(i, k, n) == IF k = 0 THEN i ELSE NextTimes(NextIdx(i, n), k - 1, n)

\* C19: in a running session 0 <= idx < number of units.  next_set moves to
\* the following unit and from the last to the first, prev_set to the
\* preceding unit and from the first to the last; each undoes the other; and
\* from every unit, pressing Next as many times as there are units visits
\* every unit exactly once and ends on the starting unit.
C19_NavigationCycles ==
    /\ [](phase = "running" =>
            LET n == Len(image_sets)
            IN  /\ n >= 1
                /\ idx \in 0..(n - 1)
                /\ PrevIdx(NextIdx(idx, n), n) = idx
                /\ NextIdx(PrevIdx(idx, n), n) = idx
                /\ NextTimes(idx, n, n) = idx
                /\ {NextTimes(idx, k, n) : k \in 0..(n - 1)} = 0..(n - 1))
    /\ [][/\ next_set =>
               /\ idx' = (IF idx = Len(image_sets) - 1 THEN 0 ELSE idx + 1)
               /\ PrevIdx(idx', Len(image_sets)) = idx
          /\ prev_set =>
               /\ idx' = (IF idx = 0 THEN Len(image_sets) - 1 ELSE idx - 1)
               /\ NextIdx(idx', Len(image_sets)) = idx]_vars

\* C19 witness: a session of three units is on its last unit, which Prev
\* reaches from the first and from which Next returns to the first
C19_Witness ==
    /\ phase = "running"
    /\ Len(image_sets) = 3
    /\ idx = 2
    /\ dialog = "none"
    /\ image_sets[idx + 1] = <<F_10_a>>

\* C20: in every state of a running session the form has at least 4 choice
\* fields and the ground truth is unselected (-1) or the index of an existing
\* field; so submit never rejects for fewer than 4 choices, and rejects for
\* the ground truth only when none is selected.
C20_FormKeepsFourFields ==
    phase = "running" =>
        /\ Len(choice_vars) >= 4
        /\ gt_var = -1 \/ gt_var \in 0..(Len(choice_vars) - 1)
        /\ dialog # "Choices: at least 4"
        /\ dialog = "Ground truth" => gt_var = -1

\* C20 witness: with five fields and the fifth selected the user moved to
\* another unit and filled the four fields of the new form without selecting
\* a ground truth; submit rejected it for the ground truth
C20_Witness ==
    /\ phase = "running"
    /\ dialog = "Ground truth"
    /\ Len(choice_vars) = 4
    /\ gt_var = -1
    /\ saved # <<>>
    /\ Len(saved[Len(saved)].rec.choices) = 5
    /\ saved[Len(saved)].rec.ground_truth = 4
    /\ idx # saved[Len(saved)].unit

\* the sorted basenames of a record that has a non-empty images list, the
\* empty tuple for any other record
KeyInList(d) ==
    IF d.type = "object" /\ d.images.k = "list" /\ d.images.v # <<>>
    THEN SortedStrs(Basenames(d))
    ELSE <<>>

\* the records of ann_list whose key in keys is key, in list order
RecordsAt(ann_list, keys, key) ==
    LET Has(k) == keys[k] = key
        at     == SelectSeq([k \in 1..Len(ann_list) |-> k], Has)
    IN  [j \in 1..Len(at) |-> ann_list[at[j]]]

\* C21: the record list and the index stay consistent.  The record list is
\* what the reader returned at session start followed by one record per
\* submit whose write returned, in submission order; every other step leaves it as it
\* is; for every key the index lists exactly the records of the record list
\* with that key, in the same order, and no key is listed without a record;
\* a second submit of an unchanged form appends a second, identical record.
C21_RecordListAndIndexConsistent ==
    /\ [](phase = "running" =>
            /\ Len(all_ann) >= Len(saved)
            /\ \A i \in 1..Len(saved) :
                  all_ann[Len(all_ann) - Len(saved) + i] = saved[i].rec
            /\ LET keys == [k \in 1..Len(all_ann) |-> KeyInList(all_ann[k])]
               IN  /\ \A key \in DOMAIN set_index :
                         /\ set_index[key] # <<>>
                         /\ set_index[key] = RecordsAt(all_ann, keys, key)
                   /\ \A k \in 1..Len(all_ann) :
                         keys[k] # <<>> => keys[k] \in DOMAIN set_index)
    /\ [][/\ (phase = "boot" /\ phase' = "running")
               => all_ann' = load_all_annotations(disk).ann
          /\ phase = "running" =>
               IF saved' # saved
               THEN /\ saved' = Append(saved, [unit |-> idx, rec |-> FormRecord])
                    /\ all_ann' = Append(all_ann, FormRecord)
               ELSE all_ann' = all_ann]_vars

\* C21 witness: the same form was submitted twice on a unit that had records
\* at session start; the record list and the unit's lookup end with the two
\* identical records
C21_Witness ==
    /\ phase = "running"
    /\ dialog = "Saved"
    /\ Len(saved) = 2
    /\ saved[1] = saved[2]
    /\ Len(all_ann) >= 4
    /\ all_ann[Len(all_ann)] = all_ann[Len(all_ann) - 1]
    /\ LET got == Lookup(set_index, image_sets[idx + 1])
       IN  Len(got) >= 4 /\ got[Len(got)] = got[Len(got) - 1]

\* the listings that hold the entries of es in another enumeration order
Reorderings(es) ==
    {[i \in 1..Len(es) |-> es[p[i]]] :
        p \in {q \in [1..Len(es) -> 1..Len(es)] :
                  \A i, j \in 1..Len(es) : i # j => q[i] # q[j]}}

\* C22 (as claimed): the result of the grouper does not depend on the order
\* in which the directory yields its entries: for every listing, the call
\* on the same entries in any other order raises when this one raises and
\* otherwise returns the same units in the same order with the same member
\* order, also when two prefixes or two names have equal natural keys.
C22_GrouperOrderIndependent ==
    fout.done =>
        \A es \in Reorderings(fin) :
            /\ GrouperRaises(es) = fout.raised
            /\ ~fout.raised => list_image_sets(es) = fout.sets

=============================================================================
